---------------------------- MODULE Spec2Model ----------------------------
(***************************************************************************)
(* Coach payment proration (GET /api/payments/current-month) of the        *)
(* medkampus design board, with the storage operations it reads.           *)
(*                                                                         *)
(* Representation.                                                         *)
(*  - A JavaScript Date is an integer number of clock ticks in local time: *)
(*    day number * TicksPerDay + time of day.  Day number 0 is 1970-01-01. *)
(*    Dates built by new Date(y, m, d) and by parseISO("yyyy-MM-dd") are   *)
(*    at local midnight (time of day 0); new Date() carries the time of    *)
(*    day of the request.  Daylight saving shifts are not modelled.        *)
(*  - A date column ("yyyy-MM-dd") is stored as its day number.            *)
(*  - Months are 0-based as in JavaScript (0 = January).                   *)
(*  - A decimal(10,2) amount is stored as an integer number of kurus       *)
(*    (1/100); the unrounded amount of a period, (fee / 30) * days, is     *)
(*    kept as the integer fee * days in units of 1/30 kurus.               *)
(***************************************************************************)
EXTENDS Integers, Sequences, FiniteSets, TLC

VARIABLES
    systemSettings,  \* table system_settings: sequence of rows
    coaches,         \* table coaches: coach id -> row
    students,        \* table students: student id -> row
    coachTransfers,  \* table coach_transfers: rows in recording order
    today,           \* new Date() of the request
    pc,              \* position of the GET /api/payments/current-month handler
    rosterCoaches,   \* handler: const coaches = await storage.getAllCoaches()
    monthlyFee,      \* handler: parseFloat(settings.coachMonthlyFee)
    paymentDay,      \* handler: settings.globalPaymentDay
    cycleStart,      \* handler: cycleStart
    cycleEnd,        \* handler: cycleEnd
    allStudents,     \* handler: allStudents
    idx,             \* handler: position of the for-of loop over allStudents
    coachPayments,   \* handler: the Map, as a sequence of entries in insertion order
    studentPeriods,  \* handler: student id -> what the loop body built for it
    response,        \* handler: what res.json / res.status(500).json sent
    answered,        \* the requests answered earlier: their stored rows and response
    paymentRecords,  \* table payment_records: rows in recording order
    transferCalls    \* the transferStudentCoach calls: their arguments and position

vars == <<systemSettings, coaches, students, coachTransfers, today, pc,
          rosterCoaches, monthlyFee, paymentDay, cycleStart, cycleEnd,
          allStudents, idx, coachPayments, studentPeriods, response, answered,
          paymentRecords, transferCalls>>

storageVars == <<systemSettings, coaches, students, coachTransfers>>

\* What the payments request and the storage operations it reads leave alone.
restVars == <<paymentRecords, transferCalls>>

handlerVars == <<pc, rosterCoaches, monthlyFee, paymentDay, cycleStart, cycleEnd,
                 allStudents, idx, coachPayments, studentPeriods, response>>

(***************************************************************************)
(* Bounds of the model.                                                    *)
(***************************************************************************)
\* Clock ticks in a day: times of day 0 (midnight) .. TicksPerDay - 1.
TicksPerDay == 2

\* Largest number of rows of coach_transfers.
MaxTransfers == 3

\* Largest number of server start-ups after the first.
MaxStartUps == 2

\* Largest number of rows of payment_records before a save, and of clock ticks
\* that pass after the first request.
MaxRecords == 2
MaxClock == 2

Min(a, b) == IF a < b THEN a ELSE b

(***************************************************************************)
(* The calendar of the JavaScript Date object (proleptic Gregorian).       *)
(***************************************************************************)
IsLeapYear(y) == (y % 4 = 0 /\ y % 100 # 0) \/ y % 400 = 0

\* Days of month m (0..11) of year y.
DaysInMonth(y, m) ==
    IF m = 1 THEN (IF IsLeapYear(y) THEN 29 ELSE 28)
    ELSE IF m \in {3, 5, 8, 10} THEN 30 ELSE 31

LeapYearsBefore(y) == ((y - 1) \div 4) - ((y - 1) \div 100) + ((y - 1) \div 400)

\* Day number of 1 January of year y.
DaysBeforeYear(y) == 365 * (y - 1970) + LeapYearsBefore(y) - LeapYearsBefore(1970)

\* Days of year y before the first of month m (0..11).
DaysBeforeMonth(y, m) ==
    <<0, 31, 59, 90, 120, 151, 181, 212, 243, 273, 304, 334>>[m + 1]
        + (IF m >= 2 /\ IsLeapYear(y) THEN 1 ELSE 0)

\* Day number of new Date(year, month, day): month and day may lie outside
\* their ranges and roll over into the neighbouring months and years.
DayNumber(year, month, day) ==
    LET y == year + (month \div 12)
        m == month % 12
    IN  DaysBeforeYear(y) + DaysBeforeMonth(y, m) + (day - 1)

\* The years whose days the model converts back to year, month and day.
CalendarYears == 2021 .. 2026

YearOfDay(n) ==
    CHOOSE y \in CalendarYears : DaysBeforeYear(y) <= n /\ n < DaysBeforeYear(y + 1)

MonthOfDay(n) ==
    LET y == YearOfDay(n)
        k == n - DaysBeforeYear(y)
    IN  CHOOSE m \in 0 .. 11 :
            DaysBeforeMonth(y, m) <= k /\ k < DaysBeforeMonth(y, m) + DaysInMonth(y, m)

DateOfDay(n) ==
    LET y == YearOfDay(n)
    IN  n - DaysBeforeYear(y) - DaysBeforeMonth(y, MonthOfDay(n)) + 1

\* ---- the Date object ----
DayOf(date) == date \div TicksPerDay
TimeOfDay(date) == date % TicksPerDay

\* new Date(year, month, day): local midnight.
NewDate(year, month, day) == DayNumber(year, month, day) * TicksPerDay

\* The fields of every day of CalendarYears, tabulated once.
CalendarDays == DaysBeforeYear(2021) .. DaysBeforeYear(2027) - 1

Calendar ==
    [n \in CalendarDays |->
        [year |-> YearOfDay(n), month |-> MonthOfDay(n), date |-> DateOfDay(n)]]

getFullYear(date) == Calendar[DayOf(date)].year
getMonth(date) == Calendar[DayOf(date)].month
getDate(date) == Calendar[DayOf(date)].date

\* date.setDate(day): the day of the month is replaced, the time of day kept;
\* a day outside the month rolls over.
setDate(date, day) ==
    DayNumber(getFullYear(date), getMonth(date), day) * TicksPerDay + TimeOfDay(date)

\* date-fns parseISO of a "yyyy-MM-dd" column: local midnight of that day.
parseISO(dayNumber) == dayNumber * TicksPerDay

\* date-fns differenceInDays(later, earlier): full days between the two.
differenceInDays(later, earlier) ==
    IF later >= earlier THEN (later - earlier) \div TicksPerDay
    ELSE 0 - ((earlier - later) \div TicksPerDay)

(***************************************************************************)
(* Billing cycle: calculatePaymentDate and the cycle of the handler.       *)
(***************************************************************************)
\* Mutant of calculatePaymentDate: the payment day is not clamped to the month.
calculatePaymentDateUnclamped(year, month, day) ==
    setDate(NewDate(year, month, 1), day)

calculatePaymentDate(year, month, day) ==
    LET date == NewDate(year, month, 1)
        lastDay == getDate(NewDate(year, month + 1, 0))
        actualDay == Min(day, lastDay)
    IN  setDate(date, actualDay)

\* let currentPaymentDate = ...; if (currentPaymentDate < today) ...
currentPaymentDate(now, day) ==
    LET currentYear == getFullYear(now)
        currentMonth == getMonth(now)
        thisMonth == calculatePaymentDate(currentYear, currentMonth, day)
    IN  IF thisMonth < now
        THEN calculatePaymentDate(currentYear, currentMonth + 1, day)
        ELSE thisMonth

\* Mutant of prevPaymentDate: January does not roll back to the previous year.
prevPaymentDateSameYear(current, day) ==
    LET payYear == getFullYear(current)
        payMonth == getMonth(current)
        prevMonth == IF payMonth = 0 THEN 11 ELSE payMonth - 1
    IN  calculatePaymentDate(payYear, prevMonth, day)

prevPaymentDate(current, day) ==
    LET payYear == getFullYear(current)
        payMonth == getMonth(current)
        prevYear == IF payMonth = 0 THEN payYear - 1 ELSE payYear
        prevMonth == IF payMonth = 0 THEN 11 ELSE payMonth - 1
    IN  calculatePaymentDate(prevYear, prevMonth, day)

\* Mutant of CycleStartOf: the cycle starts on the previous payment date itself.
CycleStartOnPaymentDate(now, day) ==
    prevPaymentDate(currentPaymentDate(now, day), day)

\* const cycleStart = new Date(prevPaymentDate); cycleStart.setDate(getDate() + 1)
CycleStartOf(now, day) ==
    LET prev == prevPaymentDate(currentPaymentDate(now, day), day)
    IN  setDate(prev, getDate(prev) + 1)

CycleEndOf(now, day) == currentPaymentDate(now, day)


(***************************************************************************)
(* Storage (DatabaseStorage).                                              *)
(***************************************************************************)
CoachIds == {"c1", "c2", "c3"}
StudentIds == <<"s1", "s2">>

\* getSettings: select().from(systemSettings).limit(1), with no ORDER BY: the
\* database may return any row of the table; the set of the rows it can return,
\* each with its id (the position it was inserted at).  The table is never empty:
\* registerRoutes inserts a row before any route exists.
getSettings == {[id |-> i] @@ systemSettings[i] : i \in 1 .. Len(systemSettings)}

RECURSIVE OrderByFirstName(_)
\* orderBy asc(coaches.firstName) over a set of coach ids.
OrderByFirstName(ids) ==
    IF ids = {} THEN <<>>
    ELSE LET first == CHOOSE c \in ids :
                         \A d \in ids : coaches[c].firstName <= coaches[d].firstName
         IN  <<first>> \o OrderByFirstName(ids \ {first})

\* with: { students: { where: eq(students.isActive, 1) } } of one coach.
ActiveStudentsOf(coachId) ==
    LET mine(s) == /\ s \in DOMAIN students
                   /\ students[s].coachId = coachId
                   /\ students[s].isActive = 1
        ids == SelectSeq(StudentIds, mine)
    IN  [i \in 1 .. Len(ids) |-> [id |-> ids[i]] @@ students[ids[i]]]

\* getAllCoaches: the active coaches, by first name, each with its active students.
getAllCoaches ==
    LET ids == OrderByFirstName({c \in DOMAIN coaches : coaches[c].isActive = 1})
    IN  [i \in 1 .. Len(ids) |-> [id |-> ids[i], students |-> ActiveStudentsOf(ids[i])]]

\* The rows of coach_transfers of one student, in recording order.
TransfersOf(studentId) ==
    SelectSeq(coachTransfers, LAMBDA t : t.studentId = studentId)

RECURSIVE OrdersOf(_, _)
\* Every order in which the rows at the positions todo can be returned.
OrdersOf(rows, todo) ==
    IF todo = {} THEN {<<>>}
    ELSE UNION {{<<rows[i]>> \o rest : rest \in OrdersOf(rows, todo \ {i})} : i \in todo}

IsDescByDate(s) ==
    \A i \in 1 .. Len(s) - 1 : s[i].transferDate >= s[i + 1].transferDate

\* getStudentTransferHistory: ORDER BY transfer_date DESC.  The database leaves
\* the order of rows with equal transfer_date open: every such order is a result.
getStudentTransferHistory(studentId) ==
    LET rows == TransfersOf(studentId)
    IN  {s \in OrdersOf(rows, 1 .. Len(rows)) : IsDescByDate(s)}

(***************************************************************************)
(* GET /api/payments/current-month: the per-student period splitting.      *)
(***************************************************************************)
RECURSIVE InsertByDate(_, _)
\* t placed after every element whose date is not later (a stable insertion).
InsertByDate(sorted, t) ==
    IF sorted = <<>> THEN <<t>>
    ELSE IF parseISO(sorted[Len(sorted)].transferDate) - parseISO(t.transferDate) > 0
         THEN InsertByDate(SubSeq(sorted, 1, Len(sorted) - 1), t)
                  \o <<sorted[Len(sorted)]>>
         ELSE sorted \o <<t>>

RECURSIVE SortPrefix(_, _)
SortPrefix(s, n) ==
    IF n = 0 THEN <<>> ELSE InsertByDate(SortPrefix(s, n - 1), s[n])

\* [...allTransfers].sort((a, b) => a.transferDate - b.transferDate): Array.sort
\* is stable, rows of equal date keep the order the database returned them in.
sortedTransfers(allTransfers) == SortPrefix(allTransfers, Len(allTransfers))

transfersBeforeWorkStart(sorted, workStart) ==
    SelectSeq(sorted, LAMBDA t : parseISO(t.transferDate) < workStart)

\* Mutant of coachAtWorkStart: the oldest transfer before workStart decides.
coachAtWorkStartOldest(sorted, workStart, currentCoachId) ==
    LET before == transfersBeforeWorkStart(sorted, workStart)
    IN  IF Len(before) > 0 THEN before[1].newCoachId
        ELSE IF Len(sorted) > 0 THEN sorted[1].oldCoachId
        ELSE currentCoachId

coachAtWorkStart(sorted, workStart, currentCoachId) ==
    LET before == transfersBeforeWorkStart(sorted, workStart)
    IN  IF Len(before) > 0 THEN before[Len(before)].newCoachId
        ELSE IF Len(sorted) > 0 THEN sorted[1].oldCoachId
        ELSE currentCoachId

\* Mutant of relevantTransfers: a transfer dated on workEnd is left out.
relevantTransfersBeforeWorkEnd(sorted, workStart, workEnd) ==
    SelectSeq(sorted, LAMBDA t : /\ parseISO(t.transferDate) >= workStart
                                 /\ parseISO(t.transferDate) < workEnd)

\* Mutant of relevantTransfers: a transfer dated on workStart is left out.
relevantTransfersAfterWorkStart(sorted, workStart, workEnd) ==
    SelectSeq(sorted, LAMBDA t : /\ parseISO(t.transferDate) > workStart
                                 /\ parseISO(t.transferDate) <= workEnd)

relevantTransfers(sorted, workStart, workEnd) ==
    SelectSeq(sorted, LAMBDA t : /\ parseISO(t.transferDate) >= workStart
                                 /\ parseISO(t.transferDate) <= workEnd)

\* Mutant of firstPeriod: the first period runs through the transfer date.
firstPeriodThroughTransferDate(relevant, coach, workStart, workEnd) ==
    LET firstTransferDate == parseISO(relevant[1].transferDate)
    IN  IF workStart < firstTransferDate
        THEN <<[coachId |-> coach, start |-> workStart,
                end |-> IF firstTransferDate < workEnd THEN firstTransferDate
                        ELSE workEnd]>>
        ELSE <<>>

\* First period: from work start to the day before the first transfer.
firstPeriod(relevant, coach, workStart, workEnd) ==
    LET firstTransferDate == parseISO(relevant[1].transferDate)
        dayBeforeTransfer == setDate(firstTransferDate, getDate(firstTransferDate) - 1)
    IN  IF workStart < firstTransferDate
        THEN <<[coachId |-> coach, start |-> workStart,
                end |-> IF dayBeforeTransfer < workEnd THEN dayBeforeTransfer
                        ELSE workEnd]>>
        ELSE <<>>

RECURSIVE middlePeriods(_, _, _)
\* Middle periods: for (let i = 0; i < relevantTransfers.length - 1; i++), from i on
\* (i is 1-based here).
middlePeriods(relevant, i, studentEnd) ==
    IF i > Len(relevant) - 1 THEN <<>>
    ELSE LET currentTransferDate == parseISO(relevant[i].transferDate)
             nextTransferDate == parseISO(relevant[i + 1].transferDate)
             dayBeforeNext == setDate(nextTransferDate, getDate(nextTransferDate) - 1)
             pushed == IF currentTransferDate <= dayBeforeNext
                          /\ currentTransferDate <= studentEnd
                       THEN <<[coachId |-> relevant[i].newCoachId,
                               start |-> currentTransferDate,
                               end |-> IF dayBeforeNext < studentEnd THEN dayBeforeNext
                                       ELSE studentEnd]>>
                       ELSE <<>>
         IN  pushed \o middlePeriods(relevant, i + 1, studentEnd)

\* Last period: from the last transfer to work end.
lastPeriod(relevant, workEnd) ==
    LET lastTransfer == relevant[Len(relevant)]
        lastTransferDate == parseISO(lastTransfer.transferDate)
    IN  IF lastTransferDate <= workEnd
        THEN <<[coachId |-> lastTransfer.newCoachId, start |-> lastTransferDate,
                end |-> workEnd]>>
        ELSE <<>>

\* const periods = []; if (relevantTransfers.length === 0) ... else ...
buildPeriods(relevant, coach, workStart, workEnd, studentEnd) ==
    IF Len(relevant) = 0
    THEN <<[coachId |-> coach, start |-> workStart, end |-> workEnd]>>
    ELSE firstPeriod(relevant, coach, workStart, workEnd)
             \o middlePeriods(relevant, 1, studentEnd)
             \o lastPeriod(relevant, workEnd)

\* Mutant of workStartOf: the window starts with the cycle whatever the package.
workStartOfCycle(studentStart, start) == start

workStartOf(studentStart, start) == IF studentStart > start THEN studentStart ELSE start
\* Mutant of workEndOf: the window ends with the cycle whatever the package.
workEndOfCycle(studentEnd, end) == end

workEndOf(studentEnd, end) == IF studentEnd < end THEN studentEnd ELSE end

(***************************************************************************)
(* The payment of each period and the per-coach accumulation.              *)
(***************************************************************************)
\* Mutant of daysWorkedOf: the last day of the period is not counted.
daysWorkedExclusive(period) == differenceInDays(period.end, period.start)

\* differenceInDays(period.end, period.start) + 1
daysWorkedOf(period) == differenceInDays(period.end, period.start) + 1

\* Mutant of amountOf: the daily fee is the monthly fee over the days of the cycle.
amountOfCycleDays(fee, daysWorked) ==
    (fee * daysWorked * 30) \div (differenceInDays(cycleEnd, cycleStart) + 1)

\* dailyFee * daysWorked with dailyFee = monthlyFee / 30, in 1/30 kurus.
amountOf(fee, daysWorked) == fee * daysWorked

\* amount.toFixed(2), in kurus: the nearest hundredth of an amount in 1/30 kurus.
toFixed2(amount30) ==
    IF amount30 >= 0 THEN (amount30 + 15) \div 30
    ELSE 0 - ((15 - amount30) \div 30)

\* The position of coachPayments.get(coachId) among the Map's entries, 0 if absent.
MapIndex(map, coachId) ==
    IF \E i \in 1 .. Len(map) : map[i].coachId = coachId
    THEN CHOOSE i \in 1 .. Len(map) : map[i].coachId = coachId
    ELSE 0

\* Mutant of addPeriod: the total accumulates the amounts rounded to two decimals.
addPeriodRounded(map, studentId, fee, period) ==
    IF period.start <= period.end
    THEN LET daysWorked == daysWorkedOf(period)
             amount == amountOf(fee, daysWorked)
             i == MapIndex(map, period.coachId)
         IN  IF i # 0
             THEN [map EXCEPT ![i].breakdown =
                        Append(@, [studentId |-> studentId,
                                   amount |-> toFixed2(amount),
                                   daysWorked |-> daysWorked]),
                              ![i].totalAmount = @ + 30 * toFixed2(amount)]
             ELSE map
    ELSE map

\* The body of for (const period of periods) for one period.
addPeriod(map, studentId, fee, period) ==
    IF period.start <= period.end
    THEN LET daysWorked == daysWorkedOf(period)
             amount == amountOf(fee, daysWorked)
             i == MapIndex(map, period.coachId)
         IN  IF i # 0
             THEN [map EXCEPT ![i].breakdown =
                        Append(@, [studentId |-> studentId,
                                   amount |-> toFixed2(amount),
                                   daysWorked |-> daysWorked]),
                              ![i].totalAmount = @ + amount]
             ELSE map
    ELSE map

RECURSIVE addPeriods(_, _, _, _, _)
\* for (const period of periods), from period k on.
addPeriods(map, studentId, fee, periods, k) ==
    IF k > Len(periods) THEN map
    ELSE addPeriods(addPeriod(map, studentId, fee, periods[k]), studentId, fee,
                    periods, k + 1)

\* Mutant of finalSummaries: the summaries are pushed in reverse Map order.
finalSummariesReversed(map) ==
    LET kept == SelectSeq(map, LAMBDA e : Len(e.breakdown) > 0)
        n == Len(kept)
    IN  [i \in 1 .. n |->
            [coachId |-> kept[n + 1 - i].coachId,
             activeStudentCount |-> Len(kept[n + 1 - i].breakdown),
             totalAmount |-> toFixed2(kept[n + 1 - i].totalAmount),
             breakdown |-> kept[n + 1 - i].breakdown]]

\* Build final summaries: the entries with a non-empty breakdown, in Map order.
finalSummaries(map) ==
    LET kept == SelectSeq(map, LAMBDA e : Len(e.breakdown) > 0)
    IN  [i \in 1 .. Len(kept) |->
            [coachId |-> kept[i].coachId,
             activeStudentCount |-> Len(kept[i].breakdown),
             totalAmount |-> toFixed2(kept[i].totalAmount),
             breakdown |-> kept[i].breakdown]]

(***************************************************************************)
(* GET /api/payments/current-month, one action per stretch of the handler  *)
(* between two awaits.                                                     *)
(***************************************************************************)
\* The handler's variables before the request runs.
HandlerInit ==
    /\ pc = "getAllCoaches"
    /\ rosterCoaches = <<>>
    /\ monthlyFee = 0
    /\ paymentDay = 0
    /\ cycleStart = 0
    /\ cycleEnd = 0
    /\ allStudents = <<>>
    /\ idx = 0
    /\ coachPayments = <<>>
    /\ studentPeriods = <<>>
    /\ response = [status |-> 0, body |-> <<>>]
    /\ answered = <<>>

\* No payment record saved and no transferStudentCoach call made yet.
RestInit ==
    /\ paymentRecords = <<>>
    /\ transferCalls = <<>>

RECURSIVE collectStudents(_, _)
\* Collect all students from all coaches, from coach i of the roster on.
collectStudents(roster, i) ==
    IF i > Len(roster) THEN <<>>
    ELSE [k \in 1 .. Len(roster[i].students) |->
             [student |-> roster[i].students[k], currentCoachId |-> roster[i].id]]
         \o collectStudents(roster, i + 1)

\* Initialize all coaches: one Map entry per coach of the roster.
initialPayments(roster) ==
    [i \in 1 .. Len(roster) |->
        [coachId |-> roster[i].id, breakdown |-> <<>>, totalAmount |-> 0]]

\* const coaches = await storage.getAllCoaches();
PayGetAllCoaches ==
    /\ pc = "getAllCoaches"
    /\ rosterCoaches' = getAllCoaches
    /\ pc' = "getSettings"
    /\ UNCHANGED <<storageVars, today, answered, restVars, monthlyFee, paymentDay,
                   cycleStart, cycleEnd, allStudents, idx, coachPayments,
                   studentPeriods, response>>

\* const settings = await storage.getSettings(); ... up to the loop over allStudents.
PayGetSettings ==
    /\ pc = "getSettings"
    /\ \E settings \in getSettings :
           /\ monthlyFee' = settings.coachMonthlyFee
           /\ paymentDay' = settings.globalPaymentDay
           /\ cycleStart' = CycleStartOf(today, settings.globalPaymentDay)
           /\ cycleEnd' = CycleEndOf(today, settings.globalPaymentDay)
    /\ allStudents' = collectStudents(rosterCoaches, 1)
    /\ coachPayments' = initialPayments(rosterCoaches)
    /\ idx' = 1
    /\ pc' = "students"
    /\ UNCHANGED <<storageVars, today, answered, restVars, rosterCoaches, studentPeriods, response>>

\* One pass of for (const { student, currentCoachId } of allStudents).
PayStudent ==
    /\ pc = "students"
    /\ idx <= Len(allStudents)
    /\ LET student == allStudents[idx].student
           currentCoachId == allStudents[idx].currentCoachId
           studentStart == parseISO(student.packageStartDate)
           studentEnd == parseISO(student.packageEndDate)
           workStart == workStartOf(studentStart, cycleStart)
           workEnd == workEndOf(studentEnd, cycleEnd)
       IN  IF workStart > workEnd
           THEN \* Skip if student wasn't active during this cycle
                /\ studentPeriods' = studentPeriods @@
                       (student.id :> [skipped |-> TRUE,
                                       currentCoachId |-> currentCoachId,
                                       workStart |-> workStart, workEnd |-> workEnd,
                                       allTransfers |-> <<>>,
                                       coachAtWorkStart |-> currentCoachId,
                                       periods |-> <<>>])
                /\ UNCHANGED coachPayments
           ELSE \E allTransfers \in getStudentTransferHistory(student.id) :
                    LET sorted == sortedTransfers(allTransfers)
                        coach == coachAtWorkStart(sorted, workStart, currentCoachId)
                        relevant == relevantTransfers(sorted, workStart, workEnd)
                        periods == buildPeriods(relevant, coach, workStart, workEnd,
                                                studentEnd)
                    IN  /\ studentPeriods' = studentPeriods @@
                               (student.id :> [skipped |-> FALSE,
                                               currentCoachId |-> currentCoachId,
                                               workStart |-> workStart,
                                               workEnd |-> workEnd,
                                               allTransfers |-> allTransfers,
                                               coachAtWorkStart |-> coach,
                                               periods |-> periods])
                        /\ coachPayments' = addPeriods(coachPayments, student.id,
                                                       monthlyFee, periods, 1)
    /\ idx' = idx + 1
    /\ UNCHANGED <<storageVars, today, answered, restVars, pc, rosterCoaches,
                   monthlyFee, paymentDay, cycleStart, cycleEnd, allStudents, response>>

\* Build final summaries; res.json(summaries).
PayRespond ==
    /\ pc = "students"
    /\ idx > Len(allStudents)
    /\ response' = [status |-> 200, body |-> finalSummaries(coachPayments)]
    /\ pc' = "done"
    /\ UNCHANGED <<storageVars, today, answered, restVars, rosterCoaches, monthlyFee, paymentDay,
                   cycleStart, cycleEnd, allStudents, idx, coachPayments,
                   studentPeriods>>

\* catch (error): an awaited storage call rejected (the database failed);
\* res.status(500).json({ message: "Failed to calculate payments" }).
PayFail ==
    /\ \/ pc \in {"getAllCoaches", "getSettings"}
       \/ /\ pc = "students"
          /\ idx <= Len(allStudents)
          /\ workStartOf(parseISO(allStudents[idx].student.packageStartDate), cycleStart)
                <= workEndOf(parseISO(allStudents[idx].student.packageEndDate), cycleEnd)
    /\ response' = [status |-> 500, body |-> <<>>]
    /\ pc' = "done"
    /\ UNCHANGED <<storageVars, today, answered, restVars, rosterCoaches, monthlyFee, paymentDay,
                   cycleStart, cycleEnd, allStudents, idx, coachPayments,
                   studentPeriods>>

Payments == PayGetAllCoaches \/ PayGetSettings \/ PayStudent \/ PayRespond \/ PayFail

(***************************************************************************)
(* The request as one function of the stored rows: what it answers when no *)
(* other request runs between its awaits and no storage call fails.        *)
(***************************************************************************)
RECURSIVE orderByFirstNameOf(_, _)
\* orderBy asc(coaches.firstName) over the ids of the coach rows cs.
orderByFirstNameOf(cs, ids) ==
    IF ids = {} THEN <<>>
    ELSE LET first == CHOOSE c \in ids : \A d \in ids : cs[c].firstName <= cs[d].firstName
         IN  <<first>> \o orderByFirstNameOf(cs, ids \ {first})

\* getAllCoaches over the coach rows cs and the student rows ss.
getAllCoachesOf(cs, ss) ==
    LET ids == orderByFirstNameOf(cs, {c \in DOMAIN cs : cs[c].isActive = 1})
        studentsOf(c) ==
            LET mine(x) == x \in DOMAIN ss /\ ss[x].coachId = c /\ ss[x].isActive = 1
                sids == SelectSeq(StudentIds, mine)
            IN  [i \in 1 .. Len(sids) |-> [id |-> sids[i]] @@ ss[sids[i]]]
    IN  [i \in 1 .. Len(ids) |-> [id |-> ids[i], students |-> studentsOf(ids[i])]]

\* getStudentTransferHistory over the transfer rows ts.
getStudentTransferHistoryOf(ts, studentId) ==
    LET rows == SelectSeq(ts, LAMBDA t : t.studentId = studentId)
    IN  {h \in OrdersOf(rows, 1 .. Len(rows)) : IsDescByDate(h)}

RECURSIVE paymentsAfter(_, _, _, _)
\* The Maps the loop over list can end with, from position k and Map map on.
paymentsAfter(ctx, list, k, map) ==
    IF k > Len(list) THEN {map}
    ELSE LET student == list[k].student
             studentStart == parseISO(student.packageStartDate)
             studentEnd == parseISO(student.packageEndDate)
             workStart == workStartOf(studentStart, ctx.cycleStart)
             workEnd == workEndOf(studentEnd, ctx.cycleEnd)
             after(allTransfers) ==
                 LET sorted == sortedTransfers(allTransfers)
                     coach == coachAtWorkStart(sorted, workStart, list[k].currentCoachId)
                     relevant == relevantTransfers(sorted, workStart, workEnd)
                     periods == buildPeriods(relevant, coach, workStart, workEnd,
                                             studentEnd)
                 IN  addPeriods(map, student.id, ctx.fee, periods, 1)
         IN  IF workStart > workEnd
             THEN paymentsAfter(ctx, list, k + 1, map)
             ELSE UNION {paymentsAfter(ctx, list, k + 1, after(h)) :
                            h \in getStudentTransferHistoryOf(ctx.transfers, student.id)}

\* The bodies the request can answer at the instant now over the stored rows
\* stored = [settings, coaches, students, transfers].
currentMonthPayments(stored, now) ==
    LET roster == getAllCoachesOf(stored.coaches, stored.students)
        ctx(settings) ==
            [fee |-> settings.coachMonthlyFee,
             cycleStart |-> CycleStartOf(now, settings.globalPaymentDay),
             cycleEnd |-> CycleEndOf(now, settings.globalPaymentDay),
             transfers |-> stored.transfers]
    IN  UNION {{finalSummaries(m) :
                   m \in paymentsAfter(ctx(stored.settings[i]),
                                       collectStudents(roster, 1), 1,
                                       initialPayments(roster))} :
               i \in 1 .. Len(stored.settings)}

\* The stored rows of the current state.
Stored ==
    [settings |-> systemSettings, coaches |-> coaches, students |-> students,
     transfers |-> coachTransfers]

(***************************************************************************)
(* Stored data the specifications start from.  Every row below is one the  *)
(* routes can store: POST /api/coaches, POST /api/students and             *)
(* PUT /api/settings accept any well-typed value (the insert schemas       *)
(* state no ranges).                                                       *)
(***************************************************************************)
\* initializeSettings: coachMonthlyFee "1100.00", globalPaymentDay 28.
DefaultSettings == [coachMonthlyFee |-> 110000, globalPaymentDay |-> 28]

\* Three active coaches, first names in the order c1 < c2 < c3.
SeedCoaches ==
    [c \in CoachIds |->
        [isActive |-> 1, firstName |-> CASE c = "c1" -> 1 [] c = "c2" -> 2 [] OTHER -> 3]]

StudentRow(coachId, startDay, endDay) ==
    [coachId |-> coachId, packageStartDate |-> startDay, packageEndDate |-> endDay,
     isActive |-> 1]

(***************************************************************************)
(* SpecCycle: the request at every instant of two years (2024 is a leap    *)
(* year), under every stored payment day of PaymentDays.                   *)
(***************************************************************************)
PaymentDays == 0 .. 32
ValidPaymentDays == 1 .. 31

CycleInstants ==
    {d * TicksPerDay + t : d \in DaysBeforeYear(2023) .. DaysBeforeYear(2025) - 1,
                           t \in 0 .. TicksPerDay - 1}

InitCycle ==
    /\ today \in CycleInstants
    /\ \E day \in PaymentDays :
           systemSettings = <<[DefaultSettings EXCEPT !.globalPaymentDay = day]>>
    /\ coaches = SeedCoaches
    /\ students = ("s1" :> StudentRow("c1", DayNumber(2023, 0, 1), DayNumber(2025, 0, 1)))
    /\ coachTransfers = <<>>
    /\ HandlerInit
    /\ RestInit

SpecCycle == InitCycle /\ [][Payments]_vars

\* The handler has computed cycleStart and cycleEnd.
CycleResolved == idx >= 1

\* The payment date of month m (0..11) of year y: paymentDay clamped to the month.
ClampedPaymentDay(y, m, day) == DayNumber(y, m, Min(day, DaysInMonth(y, m)))

\* The first clamped payment date that is not before the calendar day n.
UpcomingPaymentDay(n, day) ==
    LET y == YearOfDay(n)
        m == MonthOfDay(n)
        thisMonth == ClampedPaymentDay(y, m, day)
        ny == IF m = 11 THEN y + 1 ELSE y
        nm == IF m = 11 THEN 0 ELSE m + 1
    IN  IF thisMonth < n THEN ClampedPaymentDay(ny, nm, day) ELSE thisMonth

\* C4: cycleEnd is the clamped payment date of today's month unless that date is
\* strictly earlier than today's calendar date, and then the one of the following
\* month; on the payment date itself, at any time of day, cycleEnd is today's date
\* and today lies inside [cycleStart, cycleEnd].
C4_CycleEndIsUpcomingPaymentDate ==
    (CycleResolved /\ paymentDay \in ValidPaymentDays) =>
        /\ cycleEnd = parseISO(UpcomingPaymentDay(DayOf(today), paymentDay))
        /\ DayOf(today) = ClampedPaymentDay(getFullYear(today), getMonth(today), paymentDay)
               => /\ DayOf(cycleEnd) = DayOf(today)
                  /\ DayOf(cycleStart) <= DayOf(today)

\* C5: cycleStart is the day after the clamped payment date of the month before
\* cycleEnd's month, January rolling back to December of the previous year; with
\* paymentDay 28, today 2023-11-10 gives 29 October - 28 November and today
\* 2024-03-15 gives cycleEnd 2024-03-28, cycleStart 2024-02-29.
C5_CycleStartAfterPreviousPaymentDate ==
    (CycleResolved /\ paymentDay \in ValidPaymentDays) =>
        LET y == YearOfDay(DayOf(cycleEnd))
            m == MonthOfDay(DayOf(cycleEnd))
            py == IF m = 0 THEN y - 1 ELSE y
            pm == IF m = 0 THEN 11 ELSE m - 1
        IN  /\ cycleStart = parseISO(ClampedPaymentDay(py, pm, paymentDay) + 1)
            /\ (paymentDay = 28 /\ DayOf(today) = DayNumber(2023, 10, 10)) =>
                   /\ cycleStart = parseISO(DayNumber(2023, 9, 29))
                   /\ cycleEnd = parseISO(DayNumber(2023, 10, 28))
            /\ (paymentDay = 28 /\ DayOf(today) = DayNumber(2024, 2, 15)) =>
                   /\ cycleEnd = parseISO(DayNumber(2024, 2, 28))
                   /\ cycleStart = parseISO(DayNumber(2024, 1, 29))

\* C5 witness: the cycle of a January payment date starts in December of the
\* year before.
C5_Witness ==
    /\ CycleResolved
    /\ paymentDay = 28
    /\ DayOf(today) = DayNumber(2024, 0, 10)
    /\ cycleEnd = parseISO(DayNumber(2024, 0, 28))
    /\ cycleStart = parseISO(DayNumber(2023, 11, 29))

\* C6: for every today and every paymentDay in 1..31, cycleStart <= cycleEnd and
\* the cycle is 28 to 31 days long, both ends included.
C6_CycleLength ==
    (CycleResolved /\ paymentDay \in ValidPaymentDays) =>
        /\ cycleStart <= cycleEnd
        /\ differenceInDays(cycleEnd, cycleStart) + 1 \in 28 .. 31

\* C6 witness: paymentDay 31 in February 2023, clamped to the 28th: the cycle is
\* 1 - 28 February, 28 days.
C6_Witness ==
    /\ CycleResolved
    /\ paymentDay = 31
    /\ cycleEnd = parseISO(DayNumber(2023, 1, 28))
    /\ cycleStart = parseISO(DayNumber(2023, 1, 1))
    /\ differenceInDays(cycleEnd, cycleStart) + 1 = 28

\* C7 as stated: today 2024-03-29, paymentDay 28 gives cycleEnd 2024-04-28 and
\* cycleStart 2024-03-28.
C7_AsStated ==
    (CycleResolved /\ paymentDay = 28 /\ DayOf(today) = DayNumber(2024, 2, 29)) =>
        /\ cycleEnd = parseISO(DayNumber(2024, 3, 28))
        /\ cycleStart = parseISO(DayNumber(2024, 2, 28))

\* C7 amended: today 2024-03-29, paymentDay 28 gives cycleEnd 2024-04-28 and
\* cycleStart 2024-03-29, the day after the payment date 2024-03-28.
C7_CycleOf20240329 ==
    (CycleResolved /\ paymentDay = 28 /\ DayOf(today) = DayNumber(2024, 2, 29)) =>
        /\ cycleEnd = parseISO(DayNumber(2024, 3, 28))
        /\ cycleStart = parseISO(DayNumber(2024, 2, 29))

\* C7 witness: the cycle has been resolved for today 2024-03-29 and paymentDay 28.
C7_Witness ==
    /\ CycleResolved
    /\ paymentDay = 28
    /\ DayOf(today) = DayNumber(2024, 2, 29)
    /\ cycleEnd = parseISO(DayNumber(2024, 3, 28))

(***************************************************************************)
(* SpecSplit: the request of 2024-03-15 under the default settings (cycle  *)
(* 2024-02-29 .. 2024-03-28) for one student, over package windows and     *)
(* transfer histories of up to MaxTransfers rows.                          *)
(*                                                                         *)
(* The histories are those POST /api/students/:id/transfer-coach and       *)
(* PUT /api/students/:id (which may change coachId with no transfer row)   *)
(* can leave behind: any old and new coach, the same coach twice included, *)
(* and any dates.  They are listed in non-decreasing date order of         *)
(* recording; the handler reads them ordered by date anyway, rows of one   *)
(* date in any order.                                                      *)
(***************************************************************************)
SplitToday == NewDate(2024, 2, 15) + 1

SplitCoaches == {"c1", "c2"}

\* Package windows: covering the cycle, starting inside it, ending inside it,
\* and ended before it.
SplitPackages ==
    {<<DayNumber(2024, 0, 10), DayNumber(2024, 3, 10)>>,
     <<DayNumber(2024, 2, 5), DayNumber(2024, 5, 5)>>,
     <<DayNumber(2023, 11, 20), DayNumber(2024, 2, 20)>>,
     <<DayNumber(2023, 10, 1), DayNumber(2024, 1, 1)>>}

\* Transfer dates: before the cycle, on cycleStart, inside, and on cycleEnd.
SplitDates ==
    {DayNumber(2024, 1, 27), DayNumber(2024, 1, 29), DayNumber(2024, 2, 5),
     DayNumber(2024, 2, 20), DayNumber(2024, 2, 28)}

\* The histories of n transfers of s1, recorded in the order of their dates.
SplitHistories(n) ==
    {h \in [1 .. n -> [oldCoachId : SplitCoaches, newCoachId : SplitCoaches,
                       transferDate : SplitDates]] :
        \A i \in 1 .. n - 1 : h[i].transferDate <= h[i + 1].transferDate}

InitSplit ==
    /\ today = SplitToday
    /\ systemSettings = <<DefaultSettings>>
    /\ coaches = SeedCoaches
    /\ \E n \in 0 .. MaxTransfers : \E h \in SplitHistories(n) :
           coachTransfers = [i \in 1 .. n |-> [id |-> i, studentId |-> "s1"] @@ h[i]]
    /\ \E c \in SplitCoaches, w \in SplitPackages :
           /\ Len(coachTransfers) > 0 =>
                  c = coachTransfers[Len(coachTransfers)].newCoachId
           /\ students = ("s1" :> StudentRow(c, w[1], w[2]))
    /\ HandlerInit
    /\ RestInit

SpecSplit == InitSplit /\ [][Payments]_vars

\* The students whose loop pass has run and was not skipped.
SplitStudents == {s \in DOMAIN studentPeriods : ~studentPeriods[s].skipped}

RECURSIVE SumDaysWorked(_, _)
SumDaysWorked(periods, k) ==
    IF k > Len(periods) THEN 0
    ELSE daysWorkedOf(periods[k]) + SumDaysWorked(periods, k + 1)

\* C1: the periods of a student each have start <= end, are ordered by start,
\* do not overlap, lie in [workStart, workEnd] and cover each of its days exactly
\* once, so their daysWorked add up to the days of [workStart, workEnd].
C1_PeriodsPartitionWindow ==
    \A s \in SplitStudents :
        LET r == studentPeriods[s]
            p == r.periods
        IN  /\ \A i \in 1 .. Len(p) : p[i].start <= p[i].end
            /\ \A i \in 1 .. Len(p) : r.workStart <= p[i].start /\ p[i].end <= r.workEnd
            /\ \A i, j \in 1 .. Len(p) : i < j =>
                   p[i].start < p[j].start /\ p[i].end < p[j].start
            /\ \A d \in DayOf(r.workStart) .. DayOf(r.workEnd) :
                   Cardinality({i \in 1 .. Len(p) :
                       p[i].start <= parseISO(d) /\ parseISO(d) <= p[i].end}) = 1
            /\ SumDaysWorked(p, 1) = differenceInDays(r.workEnd, r.workStart) + 1

\* C1 witness: three transfers, two of them on one day and one before the
\* window, split the window into three periods.
C1_Witness ==
    \E s \in SplitStudents :
        LET r == studentPeriods[s]
            sorted == sortedTransfers(r.allTransfers)
        IN  /\ Len(r.periods) = 3
            /\ Len(sorted) = 3
            /\ Len(relevantTransfers(sorted, r.workStart, r.workEnd)) = 3
            /\ \E i \in 1 .. 2 : sorted[i].transferDate = sorted[i + 1].transferDate

C9_SingleTransferSplit ==
    \A s \in SplitStudents :
        LET r == studentPeriods[s]
            inWindow == {i \in 1 .. Len(r.allTransfers) :
                            /\ r.workStart <= parseISO(r.allTransfers[i].transferDate)
                            /\ parseISO(r.allTransfers[i].transferDate) <= r.workEnd}
        IN  \A i \in inWindow :
                LET t == r.allTransfers[i]
                    T == parseISO(t.transferDate)
                IN  (inWindow = {i} /\ r.workStart < T) =>
                        /\ r.periods =
                               <<[coachId |-> r.coachAtWorkStart, start |-> r.workStart,
                                  end |-> T - TicksPerDay],
                                 [coachId |-> t.newCoachId, start |-> T,
                                  end |-> r.workEnd]>>
                        /\ Len(r.allTransfers) = 1 => r.coachAtWorkStart = t.oldCoachId
                        /\ daysWorkedOf(r.periods[1]) + daysWorkedOf(r.periods[2])
                               = differenceInDays(r.workEnd, r.workStart) + 1

\* C9 witness: the student's only transfer, between two different coaches, lies
\* strictly inside the window.
C9_Witness ==
    \E s \in SplitStudents :
        LET r == studentPeriods[s]
        IN  /\ Len(r.allTransfers) = 1
            /\ r.workStart < parseISO(r.allTransfers[1].transferDate)
            /\ parseISO(r.allTransfers[1].transferDate) < r.workEnd
            /\ r.allTransfers[1].oldCoachId # r.allTransfers[1].newCoachId
            /\ Len(r.periods) = 2

\* The breakdown items of student s accumulated for coach c.
ItemsOf(c, s) ==
    LET i == MapIndex(coachPayments, c)
    IN  IF i = 0 THEN <<>>
        ELSE SelectSeq(coachPayments[i].breakdown, LAMBDA item : item.studentId = s)

\* The students whose package covers the cycle and whose only transfer in the
\* window is row i of the history, dated on cycleStart.
OnlyTransferOnCycleStart(s, i) ==
    LET r == studentPeriods[s]
    IN  /\ r.workStart = cycleStart
        /\ r.workEnd = cycleEnd
        /\ parseISO(r.allTransfers[i].transferDate) = cycleStart
        /\ \A j \in 1 .. Len(r.allTransfers) :
               (/\ r.workStart <= parseISO(r.allTransfers[j].transferDate)
                /\ parseISO(r.allTransfers[j].transferDate) <= r.workEnd) => j = i

\* The whole window of s is one period of coach c, and c's breakdown, if c is in
\* the roster, holds the one item of s for all its days.
WholeWindowTo(s, c) ==
    LET r == studentPeriods[s]
    IN  /\ r.periods = <<[coachId |-> c, start |-> r.workStart, end |-> r.workEnd]>>
        /\ MapIndex(coachPayments, c) # 0 =>
               /\ Len(ItemsOf(c, s)) = 1
               /\ ItemsOf(c, s)[1].daysWorked
                      = differenceInDays(r.workEnd, r.workStart) + 1

\* C10 as stated: with the only transfer in the window dated on cycleStart, the
\* whole window goes to its newCoachId, and its oldCoachId gets no days and no
\* breakdown item for the student.
C10_AsStated ==
    \A s \in SplitStudents :
        \A i \in 1 .. Len(studentPeriods[s].allTransfers) :
            OnlyTransferOnCycleStart(s, i) =>
                LET t == studentPeriods[s].allTransfers[i]
                IN  /\ WholeWindowTo(s, t.newCoachId)
                    /\ ItemsOf(t.oldCoachId, s) = <<>>

\* C10 amended: the whole window goes to the transfer's newCoachId, and its
\* oldCoachId, when it is another coach than the newCoachId, gets no days and no
\* breakdown item for the student.
C10_TransferOnCycleStart ==
    \A s \in SplitStudents :
        \A i \in 1 .. Len(studentPeriods[s].allTransfers) :
            OnlyTransferOnCycleStart(s, i) =>
                LET t == studentPeriods[s].allTransfers[i]
                IN  /\ WholeWindowTo(s, t.newCoachId)
                    /\ t.oldCoachId # t.newCoachId => ItemsOf(t.oldCoachId, s) = <<>>

\* C10 witness: a transfer from c1 to c2 on cycleStart, the only one of the
\* student; c2 holds the item of all 29 days and c1 none.
C10_Witness ==
    \E s \in SplitStudents :
        /\ Len(studentPeriods[s].allTransfers) = 1
        /\ OnlyTransferOnCycleStart(s, 1)
        /\ studentPeriods[s].allTransfers[1].oldCoachId = "c1"
        /\ studentPeriods[s].allTransfers[1].newCoachId = "c2"
        /\ Len(ItemsOf("c2", s)) = 1
        /\ ItemsOf("c2", s)[1].daysWorked = 29
        /\ ItemsOf("c1", s) = <<>>

(***************************************************************************)
(* Spec: the server with two students on 2024-03-15, the storage           *)
(* operations of the routes running between the awaits of one              *)
(* GET /api/payments/current-month request.                                *)
(***************************************************************************)
\* Largest number of transfer-coach calls in one behaviour of Spec.
MaxTransferCalls == 2

\* s1 (coach c1) has a package covering the cycle, s2 (coach c2) one starting
\* inside it.
SeedStudents ==
    ("s1" :> StudentRow("c1", DayNumber(2024, 0, 10), DayNumber(2024, 3, 10)))
    @@ ("s2" :> StudentRow("c2", DayNumber(2024, 2, 5), DayNumber(2024, 5, 5)))

\* Bodies of POST /api/students/:id/transfer-coach.
TransferDates == {DayNumber(2024, 1, 29), DayNumber(2024, 2, 12)}

\* Bodies of PUT /api/settings that insertSystemSettingsSchema accepts.
SettingsInputs ==
    {[coachMonthlyFee |-> 110000, globalPaymentDay |-> 28],
     [coachMonthlyFee |-> 0, globalPaymentDay |-> 28],
     [coachMonthlyFee |-> 110000, globalPaymentDay |-> 0]}

\* Coaches archived by DELETE /api/coaches/:id.
ArchivedCoaches == {"c1"}

Init ==
    /\ today = SplitToday
    /\ systemSettings = <<DefaultSettings>>
    /\ coaches = SeedCoaches
    /\ students = SeedStudents
    /\ coachTransfers = <<>>
    /\ HandlerInit
    /\ RestInit

\* PUT /api/settings -> storage.updateSettings(validated): the row getSettings
\* returns takes the validated values.
updateSettings(settingsData) ==
    /\ \E existing \in getSettings :
           systemSettings' = [systemSettings EXCEPT ![existing.id] = settingsData]
    /\ systemSettings' # systemSettings
    /\ UNCHANGED <<coaches, students, coachTransfers, today, answered, restVars, handlerVars>>

\* DELETE /api/coaches/:id -> storage.archiveCoach(id).
archiveCoach(id) ==
    /\ coaches[id].isActive = 1
    /\ coaches' = [coaches EXCEPT ![id].isActive = 0]
    /\ UNCHANGED <<systemSettings, students, coachTransfers, today, answered, restVars,
                   handlerVars>>

\* Mutant of insertCoachTransfer: the table keeps one row per student, its latest.
insertCoachTransferLatestOnly(values) ==
    LET kept == SelectSeq(coachTransfers, LAMBDA t : t.studentId # values.studentId)
    IN  Append(kept, [id |-> Len(kept) + 1] @@ values)

\* db.insert(coachTransfers).values(values): a new row after the rows recorded so
\* far, its id (gen_random_uuid() in the code) the position it is recorded at.
insertCoachTransfer(values) ==
    Append(coachTransfers, [id |-> Len(coachTransfers) + 1] @@ values)

\* POST /api/students/:id/transfer-coach -> storage.transferStudentCoach: the
\* student's coachId is read, the transfer row inserted and coachId updated; the
\* three statements run here with no other request between them.
transferStudentCoach(studentId, newCoachId, transferDate) ==
    /\ Len(coachTransfers) < MaxTransferCalls
    /\ studentId \in DOMAIN students
    /\ LET oldCoachId == students[studentId].coachId
       IN  coachTransfers' = insertCoachTransfer(
               [studentId |-> studentId, oldCoachId |-> oldCoachId,
                newCoachId |-> newCoachId, transferDate |-> transferDate])
    /\ students' = [students EXCEPT ![studentId].coachId = newCoachId]
    /\ UNCHANGED <<systemSettings, coaches, today, answered, restVars, handlerVars>>

UpdateSettings == \E settingsData \in SettingsInputs : updateSettings(settingsData)

ArchiveCoach == \E id \in ArchivedCoaches : archiveCoach(id)

TransferStudentCoach ==
    \E studentId \in DOMAIN students, newCoachId \in CoachIds, d \in TransferDates :
        transferStudentCoach(studentId, newCoachId, d)

Next == Payments \/ UpdateSettings \/ ArchiveCoach \/ TransferStudentCoach

Spec == Init /\ [][Next]_vars

\* The ids of the roster the handler read.
RosterIds == {rosterCoaches[i].id : i \in 1 .. Len(rosterCoaches)}

\* C2: when a student or one of its transfers references a coach that is not in
\* the roster of the computation, the computation answers with an error and no
\* summaries: it never returns summaries with the days of such a coach left out.
C2_AsStated ==
    (response.status = 200 /\ response.body # <<>>) =>
        \A s \in DOMAIN studentPeriods :
            LET r == studentPeriods[s]
            IN  /\ r.currentCoachId \in RosterIds
                /\ \A i \in 1 .. Len(r.allTransfers) :
                       /\ r.allTransfers[i].oldCoachId \in RosterIds
                       /\ r.allTransfers[i].newCoachId \in RosterIds
                /\ \A k \in 1 .. Len(r.periods) :
                       MapIndex(coachPayments, r.periods[k].coachId) # 0

\* C3: with a stored paymentDay outside 1..31 or a monthlyFee that is not
\* positive, the computation does not proceed: it never returns summaries.
C3_AsStated ==
    (CycleResolved /\ (paymentDay \notin ValidPaymentDays \/ monthlyFee <= 0)) =>
        ~(response.status = 200 /\ response.body # <<>>)

(***************************************************************************)
(* SpecPay: the request on the 15th of four months, whose cycles under the *)
(* default settings are 28, 29, 30 and 31 days long, for two students of   *)
(* three coaches.  Each student has one of four package windows and at     *)
(* most one recorded transfer, to its present coach.                       *)
(***************************************************************************)
\* Cycles 2023-01-29..02-28 (31 days), 2023-03-01..03-28 (28 days),
\* 2024-02-29..03-28 (29 days) and 2023-11-29..12-28 (30 days).
PayInstants ==
    {NewDate(2023, 1, 15) + 1, NewDate(2023, 2, 15) + 1, NewDate(2024, 2, 15) + 1,
     NewDate(2023, 11, 15) + 1}

\* Package windows around the day t of the request: covering the cycle, starting
\* on the 10th, ending on the 20th, and ended before the cycle.
PayPackages(t) ==
    {<<t - 60, t + 60>>, <<t - 5, t + 60>>, <<t - 60, t + 5>>, <<t - 90, t - 40>>}

\* The coaches a student of SpecPay can have.
PayCoachesOf(studentId) == IF studentId = "s1" THEN {"c1", "c2"} ELSE {"c2", "c3"}

\* The coach_transfers rows of one student: none, or one transfer to its present
\* coach from any coach, dated before the cycle (t - 20) or on the 13th (t - 2).
PayTransfersOf(studentId, coachId, t) ==
    {<<>>} \cup
    {<<[studentId |-> studentId, oldCoachId |-> old, newCoachId |-> coachId,
        transferDate |-> d]>> : old \in CoachIds, d \in {t - 20, t - 2}}

InitPay ==
    /\ today \in PayInstants
    /\ systemSettings = <<DefaultSettings>>
    /\ coaches = SeedCoaches
    /\ \E a \in PayCoachesOf("s1"), b \in PayCoachesOf("s2") :
       \E v \in PayPackages(DayOf(today)), w \in PayPackages(DayOf(today)) :
       \E x \in PayTransfersOf("s1", a, DayOf(today)),
          y \in PayTransfersOf("s2", b, DayOf(today)) :
           /\ students = ("s1" :> StudentRow(a, v[1], v[2]))
                         @@ ("s2" :> StudentRow(b, w[1], w[2]))
           /\ coachTransfers = [i \in 1 .. Len(x \o y) |-> [id |-> i] @@ (x \o y)[i]]
    /\ HandlerInit
    /\ RestInit

SpecPay == InitPay /\ [][Payments]_vars

\* The request has answered with the summaries.
Answered == pc = "done" /\ response.status = 200

\* The positions <<i, k>> of the breakdown items of student s in a body.
ItemsIn(body, s) ==
    {<<i, k>> \in (1 .. Len(body)) \X (1 .. 2 * Len(StudentIds)) :
        /\ k <= Len(body[i].breakdown)
        /\ body[i].breakdown[k].studentId = s}

\* (monthlyFee / 30) x daysWorked to two decimals, in kurus.
Prorated(fee, daysWorked) == (2 * fee * daysWorked + 30) \div 60

\* The days of the stored package of s inside the cycle, as day numbers.
WindowStart(s) == IF students[s].packageStartDate > DayOf(cycleStart)
                  THEN students[s].packageStartDate ELSE DayOf(cycleStart)
WindowEnd(s) == IF students[s].packageEndDate < DayOf(cycleEnd)
                THEN students[s].packageEndDate ELSE DayOf(cycleEnd)

\* C11: a student with an empty transfer history and a non-empty window has
\* exactly one breakdown item; it is in the summary of the student's current coach,
\* covers [max(packageStart, cycleStart), min(packageEnd, cycleEnd)] and its amount
\* is (monthlyFee / 30) x daysWorked, to two decimals.
C11_NoTransferSinglePeriod ==
    Answered =>
        \A s \in DOMAIN students :
            (TransfersOf(s) = <<>> /\ WindowStart(s) <= WindowEnd(s)) =>
                /\ studentPeriods[s].periods =
                       <<[coachId |-> students[s].coachId,
                          start |-> parseISO(WindowStart(s)),
                          end |-> parseISO(WindowEnd(s))]>>
                /\ Cardinality(ItemsIn(response.body, s)) = 1
                /\ \A p \in ItemsIn(response.body, s) :
                       LET item == response.body[p[1]].breakdown[p[2]]
                       IN  /\ response.body[p[1]].coachId = students[s].coachId
                           /\ item.daysWorked = WindowEnd(s) - WindowStart(s) + 1
                           /\ item.amount = Prorated(monthlyFee,
                                                     item.daysWorked)

\* C11 witness: s1 without transfers, its package starting on 2023-12-10 inside
\* the cycle that ends on 2023-12-28, has one item of 19 days with its coach c2.
C11_Witness ==
    /\ Answered
    /\ today = NewDate(2023, 11, 15) + 1
    /\ TransfersOf("s1") = <<>>
    /\ students["s1"].coachId = "c2"
    /\ students["s1"].packageStartDate = DayNumber(2023, 11, 10)
    /\ \E p \in ItemsIn(response.body, "s1") :
           /\ response.body[p[1]].coachId = "c2"
           /\ response.body[p[1]].breakdown[p[2]].daysWorked = 19
           /\ response.body[p[1]].breakdown[p[2]].amount = 69667

\* The stored rows without the student s.
StoredWithout(s) ==
    [Stored EXCEPT !.students = [x \in DOMAIN students \ {s} |-> students[x]]]

\* C12: a student whose package does not intersect the cycle has no breakdown
\* item with any coach, the history read that failed was never one of such a
\* student, and the summaries are those of the roster without that student.
C12_NoOverlapExcluded ==
    /\ Answered =>
           \A s \in DOMAIN students :
               WindowStart(s) > WindowEnd(s) =>
                   /\ ItemsIn(response.body, s) = {}
                   /\ response.body \in currentMonthPayments(StoredWithout(s), today)
    /\ (pc = "done" /\ response.status = 500 /\ idx \in 1 .. Len(allStudents)) =>
           WindowStart(allStudents[idx].student.id) <= WindowEnd(allStudents[idx].student.id)

\* C12 witness: s2's package ended before the cycle, s1's covers it: the
\* summaries hold the item of s1 and nothing of s2.
C12_Witness ==
    /\ Answered
    /\ WindowStart("s2") > WindowEnd("s2")
    /\ WindowStart("s1") <= WindowEnd("s1")
    /\ TransfersOf("s2") # <<>>
    /\ ItemsIn(response.body, "s1") # {}
    /\ ItemsIn(response.body, "s2") = {}


\* C13: a coach is in the returned summaries if and only if a work period of
\* some student is attributed to that coach in the cycle, and every returned
\* summary has a non-empty breakdown.
C13_AsStated ==
    (Answered /\ response.body # <<>>) =>
        /\ \A c \in CoachIds :
               (\E i \in 1 .. Len(response.body) : response.body[i].coachId = c)
                   <=> (\E s \in DOMAIN studentPeriods :
                           \E k \in 1 .. Len(studentPeriods[s].periods) :
                               studentPeriods[s].periods[k].coachId = c)
        /\ \A i \in 1 .. Len(response.body) : Len(response.body[i].breakdown) > 0

\* The position of coach c in the roster the request read, 0 if it is not in it.
RosterPosition(c) ==
    IF \E i \in 1 .. Len(rosterCoaches) : rosterCoaches[i].id = c
    THEN CHOOSE i \in 1 .. Len(rosterCoaches) : rosterCoaches[i].id = c
    ELSE 0

\* C14: the summaries list the coaches in roster order: a summary that precedes
\* another belongs to a coach that precedes the other's in the roster, so no coach
\* has two summaries.
C14_RosterOrder ==
    Answered =>
        /\ \A i \in 1 .. Len(response.body) : RosterPosition(response.body[i].coachId) > 0
        /\ \A i, j \in 1 .. Len(response.body) :
               i < j => RosterPosition(response.body[i].coachId)
                            < RosterPosition(response.body[j].coachId)

\* C14 witness: all three coaches have a summary, c1 and c3 through one student
\* that was transferred inside the cycle.
C14_Witness ==
    /\ Answered
    /\ Len(response.body) = 3
    /\ response.body[1].coachId = "c1"
    /\ response.body[2].coachId = "c2"
    /\ response.body[3].coachId = "c3"

\* The periods of student s when its transfers of one date are taken in the order
\* they were recorded in.
RecordedOrderPeriods(s) ==
    LET r == studentPeriods[s]
        sorted == sortedTransfers(TransfersOf(s))
    IN  buildPeriods(relevantTransfers(sorted, r.workStart, r.workEnd),
                     coachAtWorkStart(sorted, r.workStart, r.currentCoachId),
                     r.workStart, r.workEnd, parseISO(students[s].packageEndDate))

\* C15: the periods of a student do not depend on the order storage returns its
\* transfer history in: transfers of one transferDate count in the order they were
\* recorded in, so the periods and their coaches are those of the recorded order.
C15_AsStated ==
    \A s \in SplitStudents : studentPeriods[s].periods = RecordedOrderPeriods(s)

RECURSIVE SumOfDays(_, _)
\* The daysWorked of the items of a breakdown from item k on, added up.
SumOfDays(breakdown, k) ==
    IF k > Len(breakdown) THEN 0
    ELSE breakdown[k].daysWorked + SumOfDays(breakdown, k + 1)

RECURSIVE SumOfAmounts(_, _)
\* The (rounded) amounts of the items of a breakdown from item k on, added up.
SumOfAmounts(breakdown, k) ==
    IF k > Len(breakdown) THEN 0
    ELSE breakdown[k].amount + SumOfAmounts(breakdown, k + 1)

\* C16: the totalAmount of a summary is (monthlyFee / 30) x the sum of the
\* daysWorked of its breakdown, rounded to two decimals once; it is not the sum
\* of the rounded amounts of the items.
C16_TotalRoundedOnce ==
    Answered =>
        \A i \in 1 .. Len(response.body) :
            response.body[i].totalAmount =
                Prorated(monthlyFee, SumOfDays(response.body[i].breakdown, 1))

\* C16 witness: two items of 19 days, 696.67 each, in a summary whose total is
\* 1393.33 and not 1393.34.
C16_Witness ==
    /\ Answered
    /\ \E i \in 1 .. Len(response.body) :
           /\ Len(response.body[i].breakdown) = 2
           /\ \A k \in 1 .. 2 : response.body[i].breakdown[k].amount = 69667
           /\ response.body[i].totalAmount = 139333
           /\ SumOfAmounts(response.body[i].breakdown, 1) = 139334

\* Student s works the whole cycle: its package covers every day of the cycle and
\* it has no transfer.
WorksWholeCycle(s) ==
    /\ s \in DOMAIN students
    /\ cycleStart <= cycleEnd
    /\ students[s].packageStartDate <= DayOf(cycleStart)
    /\ students[s].packageEndDate >= DayOf(cycleEnd)
    /\ TransfersOf(s) = <<>>

\* The number of days of the cycle, both ends included.
CycleDays == DayOf(cycleEnd) - DayOf(cycleStart) + 1

RECURSIVE ItemsOfPeriods(_, _, _, _)
\* The items the periods of student s from period k on give coach c: the days
\* from start to end, both included, at a thirtieth of the monthly fee each.
ItemsOfPeriods(periods, k, s, c) ==
    IF k > Len(periods) THEN <<>>
    ELSE LET days == DayOf(periods[k].end) - DayOf(periods[k].start) + 1
             item == [studentId |-> s, daysWorked |-> days,
                      amount |-> Prorated(monthlyFee, days)]
         IN  (IF periods[k].coachId = c /\ days >= 1 THEN <<item>> ELSE <<>>)
                 \o ItemsOfPeriods(periods, k + 1, s, c)

RECURSIVE ItemsOfStudents(_, _)
\* The items of coach c over the students of the request from position j on.
ItemsOfStudents(c, j) ==
    IF j > Len(allStudents) THEN <<>>
    ELSE LET s == allStudents[j].student.id
         IN  (IF s \in DOMAIN studentPeriods
              THEN ItemsOfPeriods(studentPeriods[s].periods, 1, s, c)
              ELSE <<>>)
                 \o ItemsOfStudents(c, j + 1)

\* C18: every breakdown item is one period of the student with that coach, its
\* daysWorked the days from the period's start to its end plus one and its amount
\* (monthlyFee / 30) x daysWorked to two decimals, in cycles of 28, 29, 30 and
\* 31 days alike.
C18_ItemDaysAndAmount ==
    Answered =>
        \A i \in 1 .. Len(response.body) :
            response.body[i].breakdown = ItemsOfStudents(response.body[i].coachId, 1)

\* C18 witness: in the 31-day cycle 2023-01-29 .. 2023-02-28 a student
\* transferred on 2023-02-13 gives its old coach 15 days at 550.00 and its new
\* coach 16 days at 586.67.
C18_Witness ==
    /\ Answered
    /\ today = NewDate(2023, 1, 15) + 1
    /\ CycleDays = 31
    /\ \E p \in ItemsIn(response.body, "s1"), q \in ItemsIn(response.body, "s1") :
           /\ response.body[p[1]].coachId = "c3"
           /\ response.body[p[1]].breakdown[p[2]].daysWorked = 15
           /\ response.body[p[1]].breakdown[p[2]].amount = 55000
           /\ response.body[q[1]].coachId = "c1"
           /\ response.body[q[1]].breakdown[q[2]].daysWorked = 16
           /\ response.body[q[1]].breakdown[q[2]].amount = 58667

(***************************************************************************)
(* SpecAgain: GET /api/payments/current-month requested, answered, and     *)
(* requested again at the same date, with no other request in between,     *)
(* for one student whose package covers the cycle 2024-02-29 .. 2024-03-28 *)
(* and who has up to two recorded transfers.                               *)
(***************************************************************************)
InitAgain ==
    /\ today = SplitToday
    /\ systemSettings = <<DefaultSettings>>
    /\ coaches = SeedCoaches
    /\ \E n \in 0 .. 2 : \E h \in SplitHistories(n) :
           coachTransfers = [i \in 1 .. n |-> [id |-> i, studentId |-> "s1"] @@ h[i]]
    /\ \E c \in SplitCoaches :
           /\ Len(coachTransfers) > 0 =>
                  c = coachTransfers[Len(coachTransfers)].newCoachId
           /\ students = ("s1" :> StudentRow(c, DayNumber(2024, 0, 10),
                                             DayNumber(2024, 3, 10)))
    /\ HandlerInit
    /\ RestInit

\* The client requests GET /api/payments/current-month again after the answer.
PayAgain ==
    /\ pc = "done"
    /\ answered = <<>>
    /\ answered' = <<[stored |-> Stored, response |-> response]>>
    /\ pc' = "getAllCoaches"
    /\ rosterCoaches' = <<>>
    /\ monthlyFee' = 0
    /\ paymentDay' = 0
    /\ cycleStart' = 0
    /\ cycleEnd' = 0
    /\ allStudents' = <<>>
    /\ idx' = 0
    /\ coachPayments' = <<>>
    /\ studentPeriods' = <<>>
    /\ response' = [status |-> 0, body |-> <<>>]
    /\ UNCHANGED <<storageVars, today, restVars>>

NextAgain == Payments \/ PayAgain

SpecAgain == InitAgain /\ [][NextAgain]_vars

\* C19: the request leaves settings, coaches, students and transfers as they
\* were, and the request run again at the same date over the unchanged rows
\* returns the same summaries.
C19_AsStated ==
    (/\ pc = "done"
     /\ answered # <<>>
     /\ response.status = 200
     /\ answered[1].response.status = 200) =>
        /\ Stored = answered[1].stored
        /\ response.body = answered[1].response.body

RECURSIVE StudentsAfter(_)
\* The students table of Spec after the first k recorded transfers.
StudentsAfter(k) ==
    IF k = 0 THEN SeedStudents
    ELSE [StudentsAfter(k - 1) EXCEPT
              ![coachTransfers[k].studentId].coachId = coachTransfers[k].newCoachId]

\* The stored rows of Spec at any single instant of a behaviour: the students and
\* transfers after some number of transfer-coach calls, with any of the settings
\* and with coach c1 archived or not.
StoredInstants ==
    {[settings |-> <<st>>, coaches |-> cs, students |-> StudentsAfter(k),
      transfers |-> SubSeq(coachTransfers, 1, k)] :
        k \in 0 .. Len(coachTransfers),
        st \in SettingsInputs,
        cs \in {SeedCoaches, [SeedCoaches EXCEPT !["c1"].isActive = 0]}}

\* C20: the request works on one snapshot: also with transfer-coach calls
\* completing while it runs (no coach being archived), the summaries it returns
\* are those of the stored roster and transfer histories as they were at one
\* single instant.
C20_AsStated ==
    (Answered /\ response.body # <<>> /\ coaches = SeedCoaches) =>
        \E stored \in StoredInstants : response.body \in currentMonthPayments(stored, today)

(***************************************************************************)
(* SpecTransfer: POST /api/students/:id/transfer-coach requests running    *)
(* at the same time, one action per await of storage.transferStudentCoach, *)
(* next to storage.createCoachTransfer.  The stored rows start as in Spec. *)
(***************************************************************************)
\* The :id of the requests: a stored student and an id no student has.
TransferStudents == {"s1", "s9"}

\* Rows given to storage.createCoachTransfer.
TransferInputs ==
    {[studentId |-> "s1", oldCoachId |-> "c3", newCoachId |-> "c1",
      transferDate |-> DayNumber(2024, 2, 12)]}

\* The route calls storage.transferStudentCoach(id, newCoachId, transferDate).
TransferCall ==
    /\ Len(transferCalls) < MaxTransferCalls
    /\ \E studentId \in TransferStudents, newCoachId \in CoachIds, d \in TransferDates :
           transferCalls' = Append(transferCalls,
               [pc |-> "findFirst", studentId |-> studentId, oldCoachId |-> "",
                newCoachId |-> newCoachId, transferDate |-> d])
    /\ UNCHANGED <<storageVars, today, answered, paymentRecords, handlerVars>>

\* const student = await db.query.students.findFirst(...); throw when there is
\* none; const oldCoachId = student.coachId.
TransferFindFirst(k) ==
    /\ transferCalls[k].pc = "findFirst"
    /\ LET call == transferCalls[k]
       IN  transferCalls' = [transferCalls EXCEPT ![k] =
               IF call.studentId \in DOMAIN students
               THEN [call EXCEPT !.pc = "insert",
                                 !.oldCoachId = students[call.studentId].coachId]
               ELSE [call EXCEPT !.pc = "done"]]
    /\ UNCHANGED <<storageVars, today, answered, paymentRecords, handlerVars>>

\* await db.insert(coachTransfers).values({studentId, oldCoachId, newCoachId, ...}).
TransferInsert(k) ==
    /\ transferCalls[k].pc = "insert"
    /\ LET call == transferCalls[k]
       IN  coachTransfers' = insertCoachTransfer(
               [studentId |-> call.studentId, oldCoachId |-> call.oldCoachId,
                newCoachId |-> call.newCoachId, transferDate |-> call.transferDate])
    /\ transferCalls' = [transferCalls EXCEPT ![k].pc = "update"]
    /\ UNCHANGED <<systemSettings, coaches, students, today, answered, paymentRecords,
                   handlerVars>>

\* await db.update(students).set({coachId: newCoachId, ...}); return transfer.
TransferUpdate(k) ==
    /\ transferCalls[k].pc = "update"
    /\ students' = [students EXCEPT
                       ![transferCalls[k].studentId].coachId = transferCalls[k].newCoachId]
    /\ transferCalls' = [transferCalls EXCEPT ![k].pc = "done"]
    /\ UNCHANGED <<systemSettings, coaches, coachTransfers, today, answered,
                   paymentRecords, handlerVars>>

\* storage.createCoachTransfer(transfer): the row is inserted as given.
createCoachTransfer(transfer) ==
    /\ Len(coachTransfers) < MaxTransfers
    /\ coachTransfers' = insertCoachTransfer(transfer)
    /\ UNCHANGED <<systemSettings, coaches, students, today, answered, restVars,
                   handlerVars>>

TransferStep ==
    \E k \in 1 .. Len(transferCalls) :
        TransferFindFirst(k) \/ TransferInsert(k) \/ TransferUpdate(k)

CreateCoachTransfer == \E transfer \in TransferInputs : createCoachTransfer(transfer)

NextTransfer == TransferCall \/ TransferStep \/ CreateCoachTransfer

SpecTransfer == Init /\ [][NextTransfer]_vars

\* C21: transfer records are append-only: by every step of the storage
\* operations, each transfer recorded so far is still present afterwards with the
\* same studentId, oldCoachId, newCoachId and transferDate.
C21_TransfersAppendOnly ==
    [][\A i \in 1 .. Len(coachTransfers) :
          /\ i <= Len(coachTransfers')
          /\ coachTransfers'[i] = coachTransfers[i]]_vars

\* A transfer of s1 was recorded, and two more were recorded after it, one of
\* them for s1 again by a call that has finished.
C21_Witness ==
    /\ Len(coachTransfers) >= 3
    /\ coachTransfers[1].studentId = "s1"
    /\ \E i \in 2 .. Len(coachTransfers) : coachTransfers[i].studentId = "s1"
    /\ \E k \in 1 .. Len(transferCalls) :
           transferCalls[k].pc = "done" /\ transferCalls[k].studentId = "s1"

(***************************************************************************)
(* SpecStudents: POST /api/students, PUT /api/students/:id and             *)
(* DELETE /api/students/:id, one call after another, from an empty         *)
(* students table.  The server runs in UTC, where new Date("yyyy-MM-dd")   *)
(* (midnight UTC) is local midnight of the same day.                       *)
(***************************************************************************)
\* new Date("yyyy-MM-dd") of a date string.
newDateOfString(dayNumber) == dayNumber * TicksPerDay

\* date-fns format(date, "yyyy-MM-dd"): the local day of the date.
format(date) == DayOf(date)

\* date-fns addMonths(date, amount): the same day of the month amount months
\* later, or the last day of that month when it has no such day.
addMonths(date, amount) ==
    LET dayOfMonth == getDate(date)
        endOfDesiredMonth ==
            DayNumber(getFullYear(date), getMonth(date) + amount + 1, 0) * TicksPerDay
                + TimeOfDay(date)
        daysInMonth == getDate(endOfDesiredMonth)
    IN  IF amount = 0 THEN date
        ELSE IF dayOfMonth >= daysInMonth THEN endOfDesiredMonth
        ELSE DayNumber(getFullYear(endOfDesiredMonth), getMonth(endOfDesiredMonth),
                       dayOfMonth) * TicksPerDay + TimeOfDay(date)

\* Bodies of POST /api/students that insertStudentSchema accepts.
PackageStarts ==
    {DayNumber(2023, 7, 31), DayNumber(2024, 0, 31), DayNumber(2024, 2, 5)}

PackageMonths == {1, 6, 12}

StudentInputs ==
    [coachId : {"c1", "c2"}, packageMonths : PackageMonths,
     packageStartDate : PackageStarts]

\* Bodies of PUT /api/students/:id that insertStudentSchema.partial() accepts.
StudentUpdates ==
    [packageMonths : PackageMonths] \cup [packageStartDate : PackageStarts]
    \cup [packageMonths : PackageMonths, packageStartDate : PackageStarts]
    \cup [coachId : {"c1", "c2"}] \cup [isActive : {0, 1}]

\* storage.createStudent(studentData); id is the next id of StudentIds.
createStudent(id, studentData) ==
    LET startDate == newDateOfString(studentData.packageStartDate)
        endDate == addMonths(startDate, studentData.packageMonths)
        packageEndDate == format(endDate)
    IN  /\ id \notin DOMAIN students
        /\ students' = students @@
               (id :> [coachId |-> studentData.coachId,
                       packageMonths |-> studentData.packageMonths,
                       packageStartDate |-> studentData.packageStartDate,
                       packageEndDate |-> packageEndDate, isActive |-> 1])
        /\ UNCHANGED <<systemSettings, coaches, coachTransfers, today, answered,
                       restVars, handlerVars>>

\* Mutant of updateStudent: the end date is recalculated only with a new start.
updateStudentOnNewStart(id, studentData) ==
    LET existing == students[id]
        given(field) == field \in DOMAIN studentData
        months == IF given("packageMonths") THEN studentData.packageMonths
                  ELSE existing.packageMonths
        endDate == addMonths(newDateOfString(studentData.packageStartDate), months)
        recalculated == IF given("packageStartDate")
                        THEN [packageEndDate |-> format(endDate)] ELSE <<>>
    IN  /\ id \in DOMAIN students
        /\ students' = [students EXCEPT ![id] = recalculated @@ studentData @@ existing]
        /\ students' # students
        /\ UNCHANGED <<systemSettings, coaches, coachTransfers, today, answered,
                       restVars, handlerVars>>

\* storage.updateStudent(id, studentData): the end date is recalculated when the
\* body has a start date or package months; the fields of the body are set.
updateStudent(id, studentData) ==
    LET existing == students[id]
        given(field) == field \in DOMAIN studentData
        startDate == newDateOfString(IF given("packageStartDate")
                                     THEN studentData.packageStartDate
                                     ELSE existing.packageStartDate)
        months == IF given("packageMonths") THEN studentData.packageMonths
                  ELSE existing.packageMonths
        endDate == addMonths(startDate, months)
        recalculated == IF given("packageStartDate") \/ given("packageMonths")
                        THEN [packageEndDate |-> format(endDate)] ELSE <<>>
    IN  /\ id \in DOMAIN students
        /\ students' = [students EXCEPT ![id] = recalculated @@ studentData @@ existing]
        /\ students' # students
        /\ UNCHANGED <<systemSettings, coaches, coachTransfers, today, answered,
                       restVars, handlerVars>>

\* storage.archiveStudent(id).
archiveStudent(id) ==
    /\ id \in DOMAIN students
    /\ students[id].isActive = 1
    /\ students' = [students EXCEPT ![id].isActive = 0]
    /\ UNCHANGED <<systemSettings, coaches, coachTransfers, today, answered, restVars,
                   handlerVars>>

CreateStudent ==
    \E i \in 1 .. Len(StudentIds), studentData \in StudentInputs :
        /\ \A j \in 1 .. i - 1 : StudentIds[j] \in DOMAIN students
        /\ createStudent(StudentIds[i], studentData)

UpdateStudent ==
    \E id \in DOMAIN students, studentData \in StudentUpdates :
        updateStudent(id, studentData)

ArchiveStudent == \E id \in DOMAIN students : archiveStudent(id)

InitStudents ==
    /\ today = SplitToday
    /\ systemSettings = <<DefaultSettings>>
    /\ coaches = SeedCoaches
    /\ students = <<>>
    /\ coachTransfers = <<>>
    /\ HandlerInit
    /\ RestInit

NextStudents == CreateStudent \/ UpdateStudent \/ ArchiveStudent

SpecStudents == InitStudents /\ [][NextStudents]_vars

\* The day reached from day number start by n calendar months: the same day of
\* the month n months on, the last day of that month when it is shorter.
IsMonthsAfter(end, start, n) ==
    LET s == Calendar[start]
        e == Calendar[end]
    IN  /\ e.year * 12 + e.month = s.year * 12 + s.month + n
        /\ e.date = Min(s.date, DaysInMonth(e.year, e.month))

\* C22: after any sequence of createStudent and updateStudent calls, every
\* student's packageEndDate is its packageStartDate plus its packageMonths
\* calendar months.
C22_PackageEndDate ==
    \A id \in DOMAIN students :
        IsMonthsAfter(students[id].packageEndDate, students[id].packageStartDate,
                      students[id].packageMonths)

\* s1 was created and updated to a package of one month from 2024-01-31, which
\* ends on the last day of February; s2 had its months replaced by an update.
C22_Witness ==
    /\ DOMAIN students = {"s1", "s2"}
    /\ students["s1"].isActive = 0
    /\ students["s1"].packageStartDate = DayNumber(2024, 0, 31)
    /\ students["s1"].packageMonths = 1
    /\ students["s1"].packageEndDate = DayNumber(2024, 1, 29)
    /\ students["s2"].coachId # students["s1"].coachId
    /\ students["s2"].packageStartDate = DayNumber(2023, 7, 31)
    /\ students["s2"].packageMonths = 6
    /\ students["s2"].packageEndDate = DayNumber(2024, 1, 29)

(***************************************************************************)
(* SpecSettings: the server of Spec started again, PUT /api/settings and   *)
(* GET /api/payments/current-month.                                        *)
(***************************************************************************)
\* storage.initializeSettings(): insert the default row, onConflictDoNothing().
\* The only unique column is id, which the database draws afresh for every
\* insert (gen_random_uuid()), so no insert conflicts and a row is added.
initializeSettings ==
    /\ systemSettings' = Append(systemSettings, DefaultSettings)
    /\ UNCHANGED <<coaches, students, coachTransfers, today, answered, restVars,
                   handlerVars>>

\* registerRoutes at a server start-up: await storage.initializeSettings().  A
\* start-up ends the requests in flight; it is taken here with none in flight.
StartUp ==
    /\ Len(systemSettings) <= MaxStartUps
    /\ pc = "getAllCoaches"
    /\ initializeSettings

NextSettings == StartUp \/ UpdateSettings \/ Payments

SpecSettings == Init /\ [][NextSettings]_vars

\* C23: the settings table holds at most one row, whatever start-ups and
\* settings calls have run.
C23_AsStated == Len(systemSettings) <= 1

(***************************************************************************)
(* Claims on the periods of a student over its transfer history.           *)
(***************************************************************************)
\* The recorded transfers of student s form a chain: none is to the coach the
\* student leaves and each starts from the coach the one before it led to.
RecordedChain(s) ==
    LET rows == TransfersOf(s)
    IN  /\ \A i \in 1 .. Len(rows) : rows[i].oldCoachId # rows[i].newCoachId
        /\ \A i \in 1 .. Len(rows) - 1 : rows[i + 1].oldCoachId = rows[i].newCoachId

\* C24: every work period produced for a student is maximal: two of its periods
\* of which one ends the day before the other starts never have the same coach.
\* (Stated here for the students whose recorded transfers form a chain.)
C24_AsStated ==
    \A s \in SplitStudents :
        RecordedChain(s) =>
            LET p == studentPeriods[s].periods
            IN  \A i, j \in 1 .. Len(p) :
                    DayOf(p[i].end) + 1 = DayOf(p[j].start) =>
                        p[i].coachId # p[j].coachId

\* The recorded transfers of student s are sorted by date and each starts from the
\* coach the one before it led to.
ChainConsistent(s) ==
    LET rows == TransfersOf(s)
    IN  \A i \in 1 .. Len(rows) - 1 :
            /\ rows[i].transferDate <= rows[i + 1].transferDate
            /\ rows[i + 1].oldCoachId = rows[i].newCoachId

\* The coach who has student s on day number d by its recorded transfers: the new
\* coach of the latest transfer dated d or earlier, the old coach of the earliest
\* transfer when there is none, the stored coach when nothing was recorded.
CoachOn(s, d) ==
    LET rows == TransfersOf(s)
        upTo == {i \in 1 .. Len(rows) : rows[i].transferDate <= d}
    IN  IF rows = <<>> THEN students[s].coachId
        ELSE IF upTo = {} THEN rows[1].oldCoachId
        ELSE rows[CHOOSE i \in upTo : \A j \in upTo : j <= i].newCoachId

\* The coaches of the periods of student s that hold day number d.
PeriodCoachesOn(s, d) ==
    LET p == studentPeriods[s].periods
    IN  {p[i].coachId : i \in {k \in 1 .. Len(p) :
                                  DayOf(p[k].start) <= d /\ d <= DayOf(p[k].end)}}

\* The days of the window of student s.
WindowDays(s) ==
    DayOf(studentPeriods[s].workStart) .. DayOf(studentPeriods[s].workEnd)

\* C25: when the transfer history of a student is chain-consistent, every day of
\* [workStart, workEnd] is attributed to exactly the coach who had the student on
\* that day, and each coach is paid for as many days as it had the student.
C25_AsStated ==
    \A s \in SplitStudents :
        ChainConsistent(s) =>
            /\ \A d \in WindowDays(s) : PeriodCoachesOn(s, d) = {CoachOn(s, d)}
            /\ \A c \in CoachIds :
                   SumOfDays(ItemsOf(c, s), 1)
                       = Cardinality({d \in WindowDays(s) : CoachOn(s, d) = c})

\* The request read the history of student s after the last transfer-coach call
\* for s had finished, every transfer of s is dated on or before workEnd, and no
\* two of them have the same date.
ReadAfterTransfers(s) ==
    LET r == studentPeriods[s]
        rows == TransfersOf(s)
    IN  /\ ~r.skipped
        /\ Len(r.allTransfers) = Len(rows)
        /\ r.currentCoachId = students[s].coachId
        /\ \A i \in 1 .. Len(rows) : parseISO(rows[i].transferDate) <= r.workEnd
        /\ \A i, j \in 1 .. Len(rows) :
               i # j => rows[i].transferDate # rows[j].transferDate

\* C26: after any sequence of transferStudentCoach calls for a student, dated in
\* any order on or before workEnd, the computation attributes workEnd, the last
\* day of the student's window, to the coach stored as the student's coachId.
C26_AsStated ==
    Answered =>
        \A s \in DOMAIN studentPeriods :
            ReadAfterTransfers(s) =>
                PeriodCoachesOn(s, DayOf(studentPeriods[s].workEnd))
                    = {students[s].coachId}

(***************************************************************************)
(* Claims on concurrent transfer-coach calls (SpecTransfer).               *)
(***************************************************************************)
\* The calls that have inserted their transfer row.
InsertedCalls ==
    {k \in 1 .. Len(transferCalls) :
        transferCalls[k].pc \in {"update", "done"} /\ transferCalls[k].oldCoachId # ""}

\* Every recorded row was recorded by a transferStudentCoach call.
OnlyTransferCalls == Len(coachTransfers) = Cardinality(InsertedCalls)

\* C27: under any interleaving of concurrent transferStudentCoach calls for one
\* student, each recorded transfer starts from the coach the transfer recorded
\* just before it led to (the student's original coach for the first), and once
\* all calls have finished the student's coachId is the new coach of the transfer
\* recorded last.
C27_AsStated ==
    OnlyTransferCalls =>
        \A s \in DOMAIN students :
            LET rows == TransfersOf(s)
            IN  /\ \A i \in 1 .. Len(rows) :
                       rows[i].oldCoachId = IF i = 1 THEN SeedStudents[s].coachId
                                            ELSE rows[i - 1].newCoachId
                /\ (/\ \A k \in 1 .. Len(transferCalls) : transferCalls[k].pc = "done"
                    /\ rows # <<>>)
                       => students[s].coachId = rows[Len(rows)].newCoachId

(***************************************************************************)
(* Claims on the summaries over transfer histories (SpecSplit).            *)
(***************************************************************************)
\* The recorded transfers of student s have pairwise distinct dates.
DistinctDates(s) ==
    LET rows == TransfersOf(s)
    IN  \A i, j \in 1 .. Len(rows) : i # j => rows[i].transferDate # rows[j].transferDate

\* C28: activeStudentCount of each summary is the number of distinct students
\* with at least one breakdown item under that coach: a student who leaves a coach
\* and returns within the cycle is counted once.  (Stated here for students whose
\* recorded transfers form a chain of pairwise distinct dates.)
C28_AsStated ==
    (Answered /\ \A s \in DOMAIN students : RecordedChain(s) /\ DistinctDates(s)) =>
        \A i \in 1 .. Len(response.body) :
            LET breakdown == response.body[i].breakdown
            IN  response.body[i].activeStudentCount =
                    Cardinality({breakdown[k].studentId : k \in 1 .. Len(breakdown)})

(***************************************************************************)
(* The payments page (client/src/pages/dashboard.tsx) saving the summaries *)
(* of the request: the paymentDate it sends to POST /api/payments/save.    *)
(***************************************************************************)
\* savePaymentsMutation at the instant currentDate, with the globalPaymentDay of
\* GET /api/settings: settings?.globalPaymentDay || 28, new Date(year, month,
\* paymentDay), the month after when that lies before currentDate, formatted
\* "yyyy-MM-dd".
savePaymentDate(currentDate, globalPaymentDay) ==
    LET day == IF globalPaymentDay = 0 THEN 28 ELSE globalPaymentDay
        thisMonth == NewDate(getFullYear(currentDate), getMonth(currentDate), day)
        paymentDate == IF thisMonth < currentDate
                       THEN NewDate(getFullYear(currentDate),
                                    getMonth(currentDate) + 1, day)
                       ELSE thisMonth
    IN  format(paymentDate)

\* C29: for every today and every paymentDay in 1..31, the paymentDate the page
\* sends (computed at the instant of the request) is the cycleEnd the server
\* computed the summaries with, and its day of the month is the clamped
\* paymentDay.
C29_AsStated ==
    (CycleResolved /\ paymentDay \in ValidPaymentDays) =>
        LET sent == savePaymentDate(today, paymentDay)
        IN  /\ sent = DayOf(cycleEnd)
            /\ sent = ClampedPaymentDay(Calendar[sent].year, Calendar[sent].month,
                                        paymentDay)

(***************************************************************************)
(* SpecRecords: the payments page saving the summaries of the stored rows  *)
(* of Spec (POST /api/payments/save) and marking records as paid           *)
(* (PUT /api/payments/:id/mark-paid) while the clock advances.  A column   *)
(* that is null is the empty sequence, a value v the sequence <<v>>.       *)
(***************************************************************************)
\* Bodies of PUT /api/payments/:id/mark-paid: the page sends paidBy "Admin";
\* notes may be absent.
PaidByInputs == {"Admin", "Muhasebe"}
NotesInputs == {<<>>, <<"havale">>}

\* storage.createPaymentRecord(record): the row is inserted as given; paidAt,
\* paidBy and notes, which the route does not give, are null.
createPaymentRecord(rows, record) ==
    Append(rows, [id |-> Len(rows) + 1, paidAt |-> <<>>, paidBy |-> <<>>,
                  notes |-> <<>>] @@ record)

RECURSIVE saveSummaries(_, _, _, _)
\* for (const summary of summaries) await storage.createPaymentRecord({...}),
\* from summary k on.
saveSummaries(rows, paymentDate, summaries, k) ==
    IF k > Len(summaries) THEN rows
    ELSE saveSummaries(
             createPaymentRecord(rows,
                 [coachId |-> summaries[k].coachId, paymentDate |-> paymentDate,
                  totalAmount |-> summaries[k].totalAmount,
                  studentCount |-> summaries[k].activeStudentCount,
                  breakdown |-> summaries[k].breakdown, status |-> "pending"]),
             paymentDate, summaries, k + 1)

\* storage.markPaymentAsPaid(id, paidBy, notes): status "paid", paidAt new Date(),
\* paidBy and notes as given; a value that is undefined leaves its column as it is.
markPaymentAsPaid(id, paidBy, notes) ==
    /\ id \in 1 .. Len(paymentRecords)
    /\ paymentRecords' = [paymentRecords EXCEPT ![id] =
           [@ EXCEPT !.status = "paid", !.paidAt = <<today>>, !.paidBy = <<paidBy>>,
                     !.notes = IF notes = <<>> THEN @ ELSE notes]]
    /\ paymentRecords' # paymentRecords
    /\ UNCHANGED <<storageVars, today, answered, transferCalls, handlerVars>>

\* POST /api/payments/save with the body of the payments page: the summaries of
\* GET /api/payments/current-month and the paymentDate of savePaymentsMutation.
SavePayments ==
    /\ Len(paymentRecords) < MaxRecords
    /\ \E settings \in getSettings, summaries \in currentMonthPayments(Stored, today) :
           paymentRecords' =
               saveSummaries(paymentRecords,
                             savePaymentDate(today, settings.globalPaymentDay),
                             summaries, 1)
    /\ UNCHANGED <<storageVars, today, answered, transferCalls, handlerVars>>

\* PUT /api/payments/:id/mark-paid.
MarkPaid ==
    \E id \in 1 .. Len(paymentRecords), paidBy \in PaidByInputs, notes \in NotesInputs :
        markPaymentAsPaid(id, paidBy, notes)

\* Time passes between two requests.
Tick ==
    /\ today < SplitToday + MaxClock
    /\ today' = today + 1
    /\ UNCHANGED <<storageVars, answered, restVars, handlerVars>>

NextRecords == SavePayments \/ MarkPaid \/ Tick

SpecRecords == Init /\ [][NextRecords]_vars

\* C30: a payment record's status only moves forward, and a record that is "paid"
\* keeps the paidAt, paidBy and notes of its first mark-paid through every later
\* operation.
C30_AsStated ==
    [][\A i \in 1 .. Len(paymentRecords) :
          paymentRecords[i].status = "paid" =>
              /\ i <= Len(paymentRecords')
              /\ paymentRecords'[i].status = "paid"
              /\ paymentRecords'[i].paidAt = paymentRecords[i].paidAt
              /\ paymentRecords'[i].paidBy = paymentRecords[i].paidBy
              /\ paymentRecords'[i].notes = paymentRecords[i].notes]_vars

=============================================================================
